---- MODULE Spec2Model ----
(***************************************************************************)
(* Model of alchemy.py: the recipe catalogue, the Recipe predicates and    *)
(* the recursive path search get_recipe_path, applied by                   *)
(* print_recipe_path to one target.                                        *)
(*                                                                         *)
(* A Recipe object is identified by its position in the catalogue: Recipe  *)
(* defines no __eq__, so `in` and list.remove compare objects, and every   *)
(* entry of the catalogue list is a distinct object.  Two entries may hold *)
(* equal values.  None (no previous recipe) is position 0.                 *)
(*                                                                         *)
(* get_recipe_path is a pure function of the catalogue; it is modelled as  *)
(* a recursive operator that returns, next to the code's (solved, path),   *)
(* a history of the calls made (one record per call, in call order) and    *)
(* the (recipe, direction) pair behind every rendered step.                *)
(***************************************************************************)
EXTENDS Integers, Sequences, FiniteSets, TLC

VARIABLES catalog, target, pc, result, printed, orders

vars == <<catalog, target, pc, result, printed, orders>>

(***************************************************************************)
(* Bounds of the model.                                                    *)
(***************************************************************************)
\* Longest synthetic catalogue.
MaxRecipes == 3
\* Deepest nesting of get_recipe_path frames the model follows; a call
\* beyond it is reported as not having returned.
MaxDepth == 12

(***************************************************************************)
(* Data of the program.                                                    *)
(***************************************************************************)
base_ingredients ==
    { "DF", "CT", "BL", "AP",
      "OB", "PM", "HB", "GL",
      "BH", "VM", "TF", "ST",
      "SP", "RL", "MM", "MD",
      "LS", "IF", "CE", "IW",
      "FP", "CC", "EE", "FR",
      "DR", "ZW", "SB", "MR",
      "DW", "KM" }

COMBINE == 0
SPLIT == 1

Recipe(reagants, res, no_split) ==
    [reagents |-> reagants, result |-> res, no_split |-> no_split]

recipes ==
    << Recipe(<<"SI", "WV">>, "AC", FALSE),
       Recipe(<<"AC", "SB">>, "DB", FALSE),
       Recipe(<<"ZW", "AC">>, "BW", FALSE),
       Recipe(<<"WV">>, "PW", FALSE),
       Recipe(<<"MR", "MR">>, "RS", FALSE),
       Recipe(<<"DW", "WV">>, "US", FALSE),
       Recipe(<<"KM", "US">>, "WE", FALSE),
       Recipe(<<"PW", "RS">>, "CW", FALSE),
       Recipe(<<"LT", "PF">>, "PF", FALSE),
       Recipe(<<"PF", "FT">>, "EA", FALSE),
       Recipe(<<"LT", "EA">>, "FE", FALSE),
       Recipe(<<"FP", "IW">>, "SI", FALSE),
       Recipe(<<"CC">>, "HC", FALSE),
       Recipe(<<"HC", "SI">>, "AH", FALSE),
       Recipe(<<"EA", "FS">>, "HC", FALSE),
       Recipe(<<"HC", "FS">>, "PS", FALSE),
       Recipe(<<"FR", "EE">>, "GC", FALSE),
       Recipe(<<"DR">>, "CS", FALSE),
       Recipe(<<"GC", "CS">>, "ES", FALSE),
       Recipe(<<"DW">>, "WV", FALSE),
       Recipe(<<"FE", "AH">>, "RF", TRUE),
       Recipe(<<"PS", "ES">>, "RE", TRUE),
       Recipe(<<"BW", "DB">>, "RA", TRUE),
       Recipe(<<"CW", "WE">>, "RW", TRUE) >>

\* previous_recipe = None
NoRecipe == 0

(***************************************************************************)
(* Python list helpers.                                                    *)
(***************************************************************************)
\* x in s
InList(x, s) == \E i \in 1..Len(s) : s[i] = x

\* set(s)
ToSet(s) == { s[i] : i \in 1..Len(s) }

RECURSIVE Join(_)
\* ' + '.join(s)
Join(s) ==
    IF Len(s) = 0 THEN ""
    ELSE IF Len(s) = 1 THEN s[1]
    ELSE s[1] \o " + " \o Join(Tail(s))

\* Variant of ListRemove: drops the first item whatever it is (del s[0]).
ListRemove_first_item(s, x) == Tail(s)

\* s.remove(x): drops the first item equal to x
ListRemove(s, x) ==
    LET k == CHOOSE i \in 1..Len(s) :
                 s[i] = x /\ \A j \in 1..(i - 1) : s[j] # x
    IN  [i \in 1..(Len(s) - 1) |-> IF i < k THEN s[i] ELSE s[i + 1]]

(***************************************************************************)
(* class Recipe                                                            *)
(***************************************************************************)
\* Variant of get_recipe_string: the two renderings exchanged.
get_recipe_string_exchanged(r, direction) ==
    IF direction = SPLIT
    THEN Join(r.reagents) \o " = " \o r.result
    ELSE r.result \o " -> " \o Join(r.reagents)

get_recipe_string(r, direction) ==
    IF direction = COMBINE
    THEN Join(r.reagents) \o " = " \o r.result
    ELSE r.result \o " -> " \o Join(r.reagents)

\* Variant of is_trivial: one base reagent is enough to combine.
is_trivial_any_reagent(r, direction) ==
    IF direction = COMBINE
    THEN ToSet(r.reagents) \cap base_ingredients # {}
    ELSE r.result \in base_ingredients

is_trivial(r, direction) ==
    IF direction = COMBINE
    THEN ToSet(r.reagents) \subseteq base_ingredients
    ELSE r.result \in base_ingredients

\* Variant of get_inputs: the reagents in either direction.
get_inputs_always_reagents(r, direction) == r.reagents

\* Variant of get_inputs: the two directions exchanged.
get_inputs_exchanged(r, direction) ==
    IF direction = SPLIT THEN r.reagents ELSE <<r.result>>

get_inputs(r, direction) ==
    IF direction = SPLIT THEN <<r.result>> ELSE r.reagents

get_outputs(r, direction) ==
    IF direction = SPLIT THEN r.reagents ELSE <<r.result>>

get_required_recipe_direction(r, t) ==
    IF InList(t, r.reagents) THEN SPLIT ELSE COMBINE

\* Variant of can_make: only the result can be made.
can_make_result_only(r, t) == t = r.result /\ ~InList(t, r.reagents)

\* Variant of can_make: no_split is not consulted.
can_make_ignoring_no_split(r, t) ==
    IF t = r.result /\ ~InList(t, r.reagents) THEN TRUE
    ELSE IF t # r.result /\ InList(t, r.reagents) THEN TRUE
    ELSE FALSE

\* Variant of can_make: a result that is also a reagent can be made.
can_make_self_referential(r, t) ==
    IF t = r.result THEN TRUE
    ELSE IF InList(t, r.reagents) /\ ~r.no_split THEN TRUE
    ELSE FALSE

can_make(r, t) ==
    IF t = r.result /\ ~InList(t, r.reagents) THEN TRUE
    ELSE IF t # r.result /\ InList(t, r.reagents) /\ ~r.no_split THEN TRUE
    ELSE FALSE

(***************************************************************************)
(* get_valid_recipes: the catalogue positions, in catalogue order, of the  *)
(* recipes that can make the target.                                       *)
(***************************************************************************)
RECURSIVE ValidFrom(_, _, _)
ValidFrom(cat, t, i) ==
    IF i > Len(cat) THEN <<>>
    ELSE IF can_make(cat[i], t) THEN <<i>> \o ValidFrom(cat, t, i + 1)
    ELSE ValidFrom(cat, t, i + 1)

\* Variant of get_valid_recipes: returns at the first recipe that matches.
get_valid_recipes_first_match(cat, t) ==
    LET valid == ValidFrom(cat, t, 1)
    IN  IF Len(valid) = 0 THEN valid ELSE <<valid[1]>>

get_valid_recipes(cat, t) == ValidFrom(cat, t, 1)

\* Variant of RemovePrevious: the previous recipe stays a candidate.
RemovePrevious_kept(recipes_to_target, previous_recipe) == recipes_to_target

\* "Don't consider the previous recipe"
RemovePrevious(recipes_to_target, previous_recipe) ==
    IF InList(previous_recipe, recipes_to_target)
    THEN ListRemove(recipes_to_target, previous_recipe)
    ELSE recipes_to_target

(***************************************************************************)
(* get_recipe_path.  An outcome is                                         *)
(*   returned : FALSE when the recursion went deeper than MaxDepth         *)
(*   solved, path : the code's return value                                *)
(*   steps : the (recipe, direction) behind each string of path            *)
(*   tried : how many candidates the candidate loop started                *)
(*   calls : the history of calls, this call first                         *)
(***************************************************************************)
Outcome(returned, solved, path, steps, tried, calls) ==
    [returned |-> returned, solved |-> solved, path |-> path,
     steps |-> steps, tried |-> tried, calls |-> calls]

CallRecord(t, previous_recipe, recipes_to_target, depth, o) ==
    [target |-> t, previous_recipe |-> previous_recipe,
     recipes_to_target |-> recipes_to_target, depth |-> depth,
     tried |-> o.tried, returned |-> o.returned, solved |-> o.solved,
     path |-> o.path, steps |-> o.steps]

RECURSIVE get_recipe_path(_, _, _, _)
RECURSIVE TryRecipes(_, _, _, _, _)
RECURSIVE SolveReagents(_, _, _, _, _)

\* for reagent in recipe.get_inputs(direction): ... (from input j on)
SolveReagents(cat, recipe, inputs, j, depth) ==
    IF j > Len(inputs) THEN Outcome(TRUE, TRUE, <<>>, <<>>, 0, <<>>)
    ELSE IF inputs[j] \in base_ingredients
    THEN SolveReagents(cat, recipe, inputs, j + 1, depth)
    ELSE LET sub == get_recipe_path(cat, inputs[j], recipe, depth + 1)
         IN  IF ~sub.returned
             THEN Outcome(FALSE, FALSE, <<>>, <<>>, 0, sub.calls)
             ELSE IF ~sub.solved
             THEN Outcome(TRUE, FALSE, <<>>, <<>>, 0, sub.calls)
             ELSE LET rest == SolveReagents(cat, recipe, inputs, j + 1, depth)
                  IN  IF rest.returned /\ rest.solved
                      THEN Outcome(TRUE, TRUE, sub.path \o rest.path,
                                   sub.steps \o rest.steps, 0,
                                   sub.calls \o rest.calls)
                      ELSE Outcome(rest.returned, FALSE, <<>>, <<>>, 0,
                                   sub.calls \o rest.calls)

\* for recipe in recipes_to_target: ... (from candidate i on)
TryRecipes(cat, t, recipes_to_target, i, depth) ==
    IF i > Len(recipes_to_target)
    THEN Outcome(TRUE, FALSE, <<>>, <<>>, Len(recipes_to_target), <<>>)
    ELSE LET recipe == recipes_to_target[i]
             direction == get_required_recipe_direction(cat[recipe], t)
             own == get_recipe_string(cat[recipe], direction)
             step == [recipe |-> recipe, direction |-> direction]
         IN  IF is_trivial(cat[recipe], direction)
             THEN Outcome(TRUE, TRUE, <<own>>, <<step>>, i, <<>>)
             ELSE LET s == SolveReagents(cat, recipe,
                               get_inputs(cat[recipe], direction), 1, depth)
                  IN  IF ~s.returned
                      THEN Outcome(FALSE, FALSE, <<>>, <<>>, i, s.calls)
                      ELSE IF s.solved
                      THEN Outcome(TRUE, TRUE, s.path \o <<own>>,
                                   s.steps \o <<step>>, i, s.calls)
                      ELSE LET rest == TryRecipes(cat, t, recipes_to_target,
                                                  i + 1, depth)
                           IN  [rest EXCEPT !.calls = s.calls \o rest.calls]

get_recipe_path(cat, t, previous_recipe, depth) ==
    IF depth > MaxDepth THEN Outcome(FALSE, FALSE, <<>>, <<>>, 0, <<>>)
    ELSE LET valid == get_valid_recipes(cat, t)
         IN  IF Len(valid) = 0
             THEN LET o == Outcome(TRUE, FALSE, <<>>, <<>>, 0, <<>>)
                  IN  [o EXCEPT !.calls =
                          <<CallRecord(t, previous_recipe, <<>>, depth, o)>>]
             ELSE LET recipes_to_target == RemovePrevious(valid, previous_recipe)
                      o == TryRecipes(cat, t, recipes_to_target, 1, depth)
                  IN  [o EXCEPT !.calls =
                          <<CallRecord(t, previous_recipe, recipes_to_target,
                                       depth, o)>> \o o.calls]

\* What print_recipe_path prints, one line per item.
PrintedLines(t, o) ==
    IF ~o.returned THEN <<>>
    ELSE IF o.solved THEN o.path
    ELSE <<"Failed to solve for " \o t>>

(***************************************************************************)
(* Catalogues the search is run on.  Besides the shipped catalogue, every  *)
(* list of at most MaxRecipes entries drawn (with repetition, so equal     *)
(* entries occur) from a pool over the base elements DW, KM and the        *)
(* non-base identifiers A, B, C.                                           *)
(***************************************************************************)
RecipePool ==
    << Recipe(<<"DW">>, "A", FALSE),
       Recipe(<<"B">>, "A", FALSE),
       Recipe(<<"A">>, "B", FALSE),
       Recipe(<<"A", "B">>, "DW", FALSE),
       Recipe(<<"A", "DW">>, "B", FALSE),
       Recipe(<<"A", "A">>, "B", TRUE),
       Recipe(<<"A", "B">>, "B", FALSE),
       Recipe(<<"B", "C">>, "A", TRUE),
       Recipe(<<"C">>, "B", FALSE),
       Recipe(<<"A">>, "C", FALSE),
       Recipe(<<"C", "A">>, "B", FALSE),
       Recipe(<<"B">>, "C", FALSE),
       Recipe(<<"A">>, "B", TRUE),
       Recipe(<<"DW", "KM">>, "C", FALSE),
       Recipe(<<"C", "B", "A">>, "DW", FALSE) >>

PoolIndexLists == UNION { [1..n -> 1..Len(RecipePool)] : n \in 1..MaxRecipes }

FromPool(ix) == [i \in 1..Len(ix) |-> RecipePool[ix[i]]]

SyntheticCatalogs == { FromPool(ix) : ix \in PoolIndexLists }

\* One representative per multiset of pool entries.
SortedCatalogs ==
    { FromPool(ix) : ix \in { jx \in PoolIndexLists :
                                 \A i \in 1..(Len(jx) - 1) : jx[i] <= jx[i + 1] } }

SyntheticTargets == {"DW", "KM", "A", "B", "C"}

\* Every identifier of the shipped data, and one that occurs nowhere.
ShippedTargets ==
    base_ingredients
        \cup UNION { ToSet(recipes[i].reagents) \cup {recipes[i].result} :
                         i \in 1..Len(recipes) }
        \cup {"??"}

\* Every catalogue holding the entries of cat in some order.
Reorderings(cat) ==
    { [i \in 1..Len(cat) |-> cat[p[i]]] :
          p \in { q \in [1..Len(cat) -> 1..Len(cat)] :
                      \A i, j \in 1..Len(cat) : q[i] = q[j] => i = j } }

NoOutcome == Outcome(FALSE, FALSE, <<>>, <<>>, 0, <<>>)

(***************************************************************************)
(* The program: print_recipe_path(target) on a catalogue.                  *)
(***************************************************************************)
Init ==
    /\ catalog \in SyntheticCatalogs
    /\ target \in SyntheticTargets
    /\ pc = "start"
    /\ result = NoOutcome
    /\ printed = <<>>
    /\ orders = {}

print_recipe_path ==
    /\ pc = "start"
    /\ result' = get_recipe_path(catalog, target, NoRecipe, 1)
    /\ printed' = PrintedLines(target, result')
    /\ pc' = "done"
    /\ UNCHANGED <<catalog, target, orders>>

Next == print_recipe_path

Spec == Init /\ [][Next]_vars

\* The shipped catalogue, every identifier as target.
InitShipped ==
    /\ catalog = recipes
    /\ target \in ShippedTargets
    /\ pc = "start"
    /\ result = NoOutcome
    /\ printed = <<>>
    /\ orders = {}

SpecShipped == InitShipped /\ [][Next]_vars

\* The same target resolved on every reordering of the catalogue.
InitReorder ==
    /\ catalog \in SortedCatalogs
    /\ target \in SyntheticTargets
    /\ pc = "start"
    /\ result = NoOutcome
    /\ printed = <<>>
    /\ orders = {}

print_recipe_path_reordered ==
    /\ pc = "start"
    /\ result' = get_recipe_path(catalog, target, NoRecipe, 1)
    /\ printed' = PrintedLines(target, result')
    /\ orders' = { LET o == get_recipe_path(c, target, NoRecipe, 1)
                   IN  [order |-> c, returned |-> o.returned,
                        solved |-> o.solved, path |-> o.path] :
                   c \in Reorderings(catalog) }
    /\ pc' = "done"
    /\ UNCHANGED <<catalog, target>>

NextReorder == print_recipe_path_reordered

SpecReorder == InitReorder /\ [][NextReorder]_vars

(***************************************************************************)
(* Vocabulary of the properties.                                           *)
(***************************************************************************)
Found(o) == o.returned /\ o.solved
NotFound(o) == o.returned /\ ~o.solved
Done == pc = "done"

\* A Combine step consumes the reagents and produces the result; a Split
\* step consumes the result and produces the reagents.
Consumes(cat, s) ==
    IF s.direction = COMBINE THEN ToSet(cat[s.recipe].reagents)
    ELSE {cat[s.recipe].result}

Produces(cat, s) ==
    IF s.direction = COMBINE THEN {cat[s.recipe].result}
    ELSE ToSet(cat[s.recipe].reagents)

TopologicallyValid(cat, steps) ==
    \A k \in 1..Len(steps) :
        \A e \in Consumes(cat, steps[k]) :
            \/ e \in base_ingredients
            \/ \E j \in 1..(k - 1) : e \in Produces(cat, steps[j])

\* The direction in which r yields t, and whether r then needs only base
\* elements.
DirectionFor(r, t) == IF t \in ToSet(r.reagents) THEN SPLIT ELSE COMBINE

TrivialFor(r, t) ==
    IF DirectionFor(r, t) = COMBINE
    THEN \A i \in 1..Len(r.reagents) : r.reagents[i] \in base_ingredients
    ELSE r.result \in base_ingredients

RECURSIVE Closure(_, _)
Closure(cat, have) ==
    LET more ==
            have
            \cup { cat[i].result :
                     i \in { j \in 1..Len(cat) :
                               ToSet(cat[j].reagents) \subseteq have } }
            \cup UNION { ToSet(cat[i].reagents) :
                           i \in { j \in 1..Len(cat) :
                                     /\ ~cat[j].no_split
                                     /\ cat[j].result \in have } }
    IN  IF more = have THEN have ELSE Closure(cat, more)

\* What finitely many recipe applications make out of the base elements.
Obtainable(cat) == Closure(cat, base_ingredients)

\* The call that made call k of a history: the last earlier call one level up.
Parent(calls, k) ==
    CHOOSE j \in 1..(k - 1) :
        /\ calls[j].depth = calls[k].depth - 1
        /\ \A i \in (j + 1)..(k - 1) : calls[i].depth >= calls[k].depth

(***************************************************************************)
(* C1.  Whenever get_recipe_path returns Found, at the top or in any       *)
(* recursive call, the path is non-empty, every string of it renders its   *)
(* step, every identifier a step consumes is a base element or produced by *)
(* an earlier step, and the last step is the selected candidate's own      *)
(* step, which produces the target.                                        *)
(***************************************************************************)
FoundPathValid(cat, c) ==
    /\ Len(c.path) > 0
    /\ Len(c.steps) = Len(c.path)
    /\ \A k \in 1..Len(c.path) :
           c.path[k] = get_recipe_string(cat[c.steps[k].recipe],
                                         c.steps[k].direction)
    /\ TopologicallyValid(cat, c.steps)
    /\ c.tried \in 1..Len(c.recipes_to_target)
    /\ c.steps[Len(c.steps)].recipe = c.recipes_to_target[c.tried]
    /\ c.target \in Produces(cat, c.steps[Len(c.steps)])

C1_FoundPathIsValid ==
    Done => \A k \in 1..Len(result.calls) :
                Found(result.calls[k]) => FoundPathValid(catalog, result.calls[k])

C1_Witness ==
    /\ Done
    /\ Found(result)
    /\ Len(result.steps) >= 3
    /\ \E k \in 1..Len(result.steps) : result.steps[k].direction = SPLIT
    /\ \E k \in 1..Len(result.steps) : result.steps[k].direction = COMBINE

(***************************************************************************)
(* C2.  As claimed: get_recipe_path returns Found for every target         *)
(* obtainable from the base elements.  Stated here for the non-base        *)
(* targets, where at least one recipe application is needed; a base        *)
(* element asked for directly is the case of C7.                           *)
(***************************************************************************)
C2_ObtainableIsFound ==
    (Done /\ target \notin base_ingredients /\ target \in Obtainable(catalog))
        => Found(result)

(***************************************************************************)
(* C2, amended.  For a non-base target obtainable from the base elements   *)
(* get_recipe_path never returns NotFound: when it returns, it returns     *)
(* Found.                                                                  *)
(***************************************************************************)
C2_ObtainableNeverNotFound ==
    (Done /\ target \notin base_ingredients /\ target \in Obtainable(catalog))
        => ~NotFound(result)

C2_Witness ==
    /\ Done
    /\ target \notin base_ingredients
    /\ target \in Obtainable(catalog)
    /\ Found(result)
    /\ result.tried > 1
    /\ Len(result.steps) >= 2

C2_WitnessNoReturn ==
    /\ Done
    /\ target \notin base_ingredients
    /\ target \in Obtainable(catalog)
    /\ ~result.returned

(***************************************************************************)
(* C3.  As claimed: on all orderings of the same recipes the search agrees *)
(* on whether it returns Found.                                            *)
(***************************************************************************)
C3_OrderKeepsFound ==
    Done => \A o1, o2 \in orders : Found(o1) <=> Found(o2)

(***************************************************************************)
(* C3, amended.  No reordering of the catalogue turns a Found into a       *)
(* NotFound: of two orderings of the same recipes, the search never        *)
(* returns Found on one and NotFound on the other.                         *)
(***************************************************************************)
C3_OrderNeverFlipsReturn ==
    Done => \A o1, o2 \in orders : ~(Found(o1) /\ NotFound(o2))

C3_Witness ==
    /\ Done
    /\ \E o1, o2 \in orders :
           /\ o1.order # o2.order
           /\ Found(o1)
           /\ Found(o2)
           /\ o1.path # o2.path

(***************************************************************************)
(* C4.  In every call get_recipe_path(t, p) the candidate list is exactly  *)
(* the catalogue entries that can make t, other than the entry p itself,   *)
(* in catalogue order; the candidates tried are a prefix of it, and the    *)
(* step a call returns last is never the entry p.                          *)
(***************************************************************************)
RECURSIVE CandidatesFrom(_, _, _, _)
CandidatesFrom(cat, t, p, i) ==
    IF i > Len(cat) THEN <<>>
    ELSE IF can_make(cat[i], t) /\ i # p
    THEN <<i>> \o CandidatesFrom(cat, t, p, i + 1)
    ELSE CandidatesFrom(cat, t, p, i + 1)

C4_ParentExcludedByIdentity ==
    Done => \A k \in 1..Len(result.calls) :
                LET c == result.calls[k]
                IN  /\ c.recipes_to_target =
                           CandidatesFrom(catalog, c.target, c.previous_recipe, 1)
                    /\ c.tried \in 0..Len(c.recipes_to_target)
                    /\ Found(c) =>
                           c.steps[Len(c.steps)].recipe # c.previous_recipe
                    /\ k > 1 =>
                           LET q == result.calls[Parent(result.calls, k)]
                           IN  \E j \in 1..q.tried :
                                   c.previous_recipe = q.recipes_to_target[j]

\* A call tries an entry equal in value to its caller's recipe, and a call
\* tries the recipe its caller's caller is working on.
C4_Witness ==
    /\ Done
    /\ \E k \in 1..Len(result.calls) :
           LET c == result.calls[k]
           IN  /\ c.previous_recipe # NoRecipe
               /\ \E j \in 1..c.tried :
                      catalog[c.recipes_to_target[j]] = catalog[c.previous_recipe]
    /\ \E k \in 2..Len(result.calls) :
           LET c == result.calls[k]
               q == result.calls[Parent(result.calls, k)]
           IN  /\ q.previous_recipe # NoRecipe
               /\ \E j \in 1..c.tried :
                      c.recipes_to_target[j] = q.previous_recipe

(***************************************************************************)
(* C5.  A no_split recipe is never a candidate for one of its reagents in  *)
(* any call, no path holds a Split step of a no_split recipe, and a target *)
(* that only Split uses of no_split recipes would produce is NotFound.     *)
(***************************************************************************)
OnlyNoSplitProduces(cat, t) ==
    /\ \E i \in 1..Len(cat) : t \in ToSet(cat[i].reagents)
    /\ \A i \in 1..Len(cat) :
           /\ cat[i].result # t
           /\ t \in ToSet(cat[i].reagents) => cat[i].no_split

C5_NoSplitNeverSplit ==
    Done =>
        /\ \A k \in 1..Len(result.calls) :
               LET c == result.calls[k]
               IN  /\ \A j \in 1..Len(c.recipes_to_target) :
                          LET r == catalog[c.recipes_to_target[j]]
                          IN  r.no_split => c.target \notin ToSet(r.reagents)
                   /\ \A j \in 1..Len(c.steps) :
                          ~(/\ c.steps[j].direction = SPLIT
                            /\ catalog[c.steps[j].recipe].no_split)
        /\ OnlyNoSplitProduces(catalog, target) =>
               NotFound(result) /\ result.path = <<>>

C5_Witness ==
    /\ Done
    /\ OnlyNoSplitProduces(catalog, target)
    /\ NotFound(result)
    /\ \E i \in 1..Len(catalog) :
           catalog[i].no_split /\ Found(get_recipe_path(catalog, catalog[i].result, NoRecipe, 1))

(***************************************************************************)
(* C6.  On the shipped catalogue the targets with a trivial candidate are  *)
(* SI, WV, RS, HC, GC and CS; each is Found with exactly one step, the     *)
(* Combine rendering of its trivial recipe, reached after every earlier    *)
(* candidate, a non-trivial Split, was tried and rejected.                 *)
(***************************************************************************)
TrivialStep(t) ==
    CASE t = "SI" -> "FP + IW = SI"
      [] t = "WV" -> "DW = WV"
      [] t = "RS" -> "MR + MR = RS"
      [] t = "HC" -> "CC = HC"
      [] t = "GC" -> "FR + EE = GC"
      [] t = "CS" -> "DR = CS"

HasTrivialCandidate(cat, t) ==
    \E i \in 1..Len(cat) :
        /\ \/ t = cat[i].result /\ t \notin ToSet(cat[i].reagents)
           \/ t # cat[i].result /\ t \in ToSet(cat[i].reagents) /\ ~cat[i].no_split
        /\ TrivialFor(cat[i], t)

C6_ShippedTrivialTargets ==
    /\ HasTrivialCandidate(catalog, target)
           <=> target \in {"SI", "WV", "RS", "HC", "GC", "CS"}
    /\ (Done /\ HasTrivialCandidate(catalog, target)) =>
           LET c == result.calls[1]
               chosen == catalog[c.recipes_to_target[c.tried]]
           IN  /\ Found(result)
               /\ result.path = <<TrivialStep(target)>>
               /\ printed = <<TrivialStep(target)>>
               /\ chosen.result = target
               /\ TrivialFor(chosen, target)
               /\ \A j \in 1..(c.tried - 1) :
                      LET r == catalog[c.recipes_to_target[j]]
                      IN  /\ DirectionFor(r, target) = SPLIT
                          /\ ~TrivialFor(r, target)
                          /\ \E k \in 2..Len(result.calls) :
                                 /\ result.calls[k].depth = 2
                                 /\ result.calls[k].previous_recipe =
                                        c.recipes_to_target[j]
                                 /\ NotFound(result.calls[k])

C6_Witness ==
    /\ Done
    /\ target = "WV"
    /\ result.calls[1].recipes_to_target = <<1, 4, 6, 20>>
    /\ result.calls[1].tried = 4
    /\ result.path = <<"DW = WV">>

(***************************************************************************)
(* C7.  On the shipped catalogue every base element asked for as the       *)
(* target is NotFound, with an empty path; one that occurs in no recipe    *)
(* has no candidate and makes no recursive call.                           *)
(***************************************************************************)
OccursInSomeRecipe(cat, t) ==
    \E i \in 1..Len(cat) : t = cat[i].result \/ t \in ToSet(cat[i].reagents)

C7_ShippedBaseTargetFails ==
    (Done /\ target \in base_ingredients) =>
        /\ NotFound(result)
        /\ result.path = <<>>
        /\ printed = <<"Failed to solve for " \o target>>
        /\ ~OccursInSomeRecipe(catalog, target) =>
               /\ Len(result.calls) = 1
               /\ result.calls[1].recipes_to_target = <<>>

C7_Witness ==
    /\ Done
    /\ target = "CC"
    /\ NotFound(result)
    /\ Len(result.calls) > 1
    /\ printed = <<"Failed to solve for CC">>

(***************************************************************************)
(* C8.  On a catalogue of exactly Recipe([B], A) and Recipe([A], B), A and *)
(* B distinct and not base, get_recipe_path(A) returns neither Found nor   *)
(* NotFound: the calls get_recipe_path(B, first) and                       *)
(* get_recipe_path(A, second) alternate, one level deeper each, as far as  *)
(* the recursion is followed.                                              *)
(***************************************************************************)
TwoRecipeCycle(cat) ==
    /\ Len(cat) = 2
    /\ Len(cat[1].reagents) = 1
    /\ Len(cat[2].reagents) = 1
    /\ cat[1].reagents[1] = cat[2].result
    /\ cat[2].reagents[1] = cat[1].result
    /\ cat[1].result # cat[2].result
    /\ cat[1].result \notin base_ingredients
    /\ cat[2].result \notin base_ingredients

C8_TwoRecipeCycleNeverReturns ==
    (Done /\ TwoRecipeCycle(catalog) /\ target = catalog[1].result) =>
        /\ ~result.returned
        /\ printed = <<>>
        /\ Len(result.calls) = MaxDepth
        /\ \A k \in 1..Len(result.calls) :
               LET c == result.calls[k]
               IN  /\ c.depth = k
                   /\ ~c.returned
                   /\ c.target = IF k % 2 = 1 THEN catalog[1].result
                                 ELSE catalog[2].result
                   /\ c.previous_recipe = IF k = 1 THEN NoRecipe
                                          ELSE IF k % 2 = 0 THEN 1 ELSE 2

C8_Witness ==
    /\ Done
    /\ TwoRecipeCycle(catalog)
    /\ target = catalog[1].result
    /\ ~result.returned
    /\ Len(result.calls) >= 4
    /\ result.calls[2].previous_recipe = 1
    /\ result.calls[3].previous_recipe = 2
    /\ result.calls[4].previous_recipe = 1

(***************************************************************************)
(* C9.  As claimed: a call with a trivial candidate returns Found with     *)
(* exactly one step, the rendering of the first trivial candidate.         *)
(***************************************************************************)
TrivialPositions(cat, c) ==
    { j \in 1..Len(c.recipes_to_target) :
          TrivialFor(cat[c.recipes_to_target[j]], c.target) }

FirstTrivial(cat, c) ==
    CHOOSE j \in TrivialPositions(cat, c) :
        \A i \in TrivialPositions(cat, c) : j <= i

RenderFor(r, t) ==
    IF DirectionFor(r, t) = COMBINE
    THEN Join(r.reagents) \o " = " \o r.result
    ELSE r.result \o " -> " \o Join(r.reagents)

C9_TrivialAlwaysWins ==
    Done => \A k \in 1..Len(result.calls) :
                LET c == result.calls[k]
                IN  TrivialPositions(catalog, c) # {} =>
                        /\ Found(c)
                        /\ c.path =
                             <<RenderFor(
                                 catalog[c.recipes_to_target[FirstTrivial(catalog, c)]],
                                 c.target)>>

(***************************************************************************)
(* C9, amended.  Candidates are tried in catalogue order.  A call whose    *)
(* first trivial candidate is reached, every candidate before it having    *)
(* been rejected, returns Found with exactly one step, the rendering of    *)
(* that candidate.  A call that returns before reaching it returns Found   *)
(* with the longer path of an earlier non-trivial candidate whose inputs   *)
(* all resolved.  No call tries a candidate after its first trivial one.   *)
(***************************************************************************)
C9_FirstTrivialWinsWhenReached ==
    Done => \A k \in 1..Len(result.calls) :
                LET c == result.calls[k]
                IN  TrivialPositions(catalog, c) # {} =>
                        LET f == FirstTrivial(catalog, c)
                            r == catalog[c.recipes_to_target[f]]
                        IN  /\ c.tried <= f
                            /\ c.tried = f =>
                                   /\ Found(c)
                                   /\ c.path = <<RenderFor(r, c.target)>>
                            /\ (c.tried < f /\ c.returned) =>
                                   /\ Found(c)
                                   /\ Len(c.path) >= 2
                            /\ ~c.returned => c.tried < f

C9_Witness ==
    /\ Done
    /\ \E k \in 1..Len(result.calls) :
           LET c == result.calls[k]
           IN  /\ TrivialPositions(catalog, c) # {}
               /\ FirstTrivial(catalog, c) > 1
               /\ c.tried = FirstTrivial(catalog, c)
               /\ Found(c)
    /\ \E k \in 1..Len(result.calls) :
           LET c == result.calls[k]
           IN  /\ TrivialPositions(catalog, c) # {}
               /\ c.tried < FirstTrivial(catalog, c)
               /\ Found(c)

(***************************************************************************)
(* C10.  On the shipped catalogue the search returns for every target, and *)
(* returns Found for each of the 26 non-base identifiers of the catalogue; *)
(* LT, FT and FS are produced by a Split step, and Recipe([LT, PF], PF) is *)
(* never a candidate for PF.                                               *)
(***************************************************************************)
ShippedNonBase ==
    { "AC", "DB", "BW", "PW", "RS", "US", "WE", "CW", "PF", "EA", "FE", "SI",
      "HC", "AH", "PS", "GC", "CS", "ES", "WV", "RF", "RE", "RA", "RW", "LT",
      "FT", "FS" }

C10_ShippedAlwaysReturns ==
    /\ ShippedNonBase = (ShippedTargets \ base_ingredients) \ {"??"}
    /\ Done =>
           /\ result.returned
           /\ \A k \in 1..Len(result.calls) :
                  /\ result.calls[k].returned
                  /\ result.calls[k].depth < MaxDepth
                  /\ result.calls[k].target = "PF" =>
                         \A j \in 1..Len(result.calls[k].recipes_to_target) :
                             catalog[result.calls[k].recipes_to_target[j]]
                                 # Recipe(<<"LT", "PF">>, "PF", FALSE)
           /\ target \in ShippedNonBase =>
                  /\ Found(result)
                  /\ printed = result.path
           /\ target \in {"LT", "FT", "FS"} =>
                  result.steps[Len(result.steps)].direction = SPLIT

C10_Witness ==
    /\ Done
    /\ target = "LT"
    /\ Found(result)
    /\ result.path = <<"CC = HC", "HC -> EA + FS", "EA -> PF + FT", "PF -> LT + PF">>
    /\ \E k \in 1..Len(result.calls) : result.calls[k].target = "PF"

====
